---- MODULE Spec2Model ----
(***************************************************************************)
(* Model of the restaurant-loyalty backend:                                *)
(*   - the campaign dispatch edge function (src/unnamed/part_000),         *)
(*   - the database-resident invoice lifecycle                             *)
(*     (src/supabase/migrations/20251111142138_...sql),                    *)
(*   - reads of invoices: the row level security policy                    *)
(*     (src/supabase/migrations/20251114134516_...sql) and the             *)
(*     download-receipt edge function                                      *)
(*     (src/supabase/functions/download-receipt/index.ts).                 *)
(* JavaScript strings are modelled as sequences of one-character strings,  *)
(* null / undefined / '' (all falsy) as the empty sequence.                *)
(***************************************************************************)
EXTENDS Integers, Sequences, FiniteSets, TLC

VARIABLES
    \* ---- database rows read and written by the dispatch handler
    campaign,          \* the campaigns row joined with its restaurant
    customers,         \* the tenant's customers rows, in query order
    providerRow,       \* provider of the enabled channel_provider_configs row
    campaign_sends,    \* the campaign_sends table (append-only)
    campaign_metrics,  \* the campaign_metrics row of the campaign
    \* ---- one invocation of the dispatch handler
    pc,                \* "idle" | "loop" | "done"
    testMode,
    targetCustomers,
    idx,               \* position of the for..of loop in targetCustomers
    results,
    response,
    provider_calls,    \* the HTTP requests made to the delivery providers
    \* ---- history of the invocation
    reqCount,          \* invocations so far
    startSnap,         \* Len(campaign_sends), Len(provider_calls), status, metrics at entry
    lastReq,           \* the request of this invocation
    outcomes,          \* per recipient of this invocation: how its iteration ended
    \* ---- one call of personalizeMessage
    p_pc,              \* "off" | "call" | "returned"
    p_in,              \* its arguments
    p_out,             \* its result, or that it threw
    \* ---- one call of calculateAudience
    a_pc,              \* "off" | "call" | "returned"
    a_in,              \* the customers table and the campaign's audience fields
    a_out,             \* the rows it returned, or that it threw
    \* ---- one read of invoice data: a select under row level security, or a
    \* ---- request to the download-receipt function
    q_pc,              \* "off" | "ready" | "answered"
    q_req,             \* who asks, by which path, for which invoice id
    q_resp,            \* the status and the invoice rows whose data is returned
    \* ---- the database of the invoice lifecycle (committed rows)
    subscriptions,
    invoices,
    invoice_line_items,
    enumHasPaid,       \* whether subscription_status has the label 'paid'
    \* ---- database sessions calling the functions, one transaction per call
    tx,
    calls              \* calls begun so far

dispatchVars == <<campaign, customers, providerRow, campaign_sends, campaign_metrics,
                  pc, testMode, targetCustomers, idx, results, response,
                  provider_calls, reqCount, startSnap, lastReq, outcomes>>

personalizeVars == <<p_pc, p_in, p_out>>

audienceVars == <<a_pc, a_in, a_out>>

readVars == <<q_pc, q_req, q_resp>>

invoiceVars == <<subscriptions, invoices, invoice_line_items, enumHasPaid, tx, calls>>

vars == <<dispatchVars, personalizeVars, audienceVars, readVars, invoiceVars>>

otherThanDispatch == <<personalizeVars, audienceVars, readVars, invoiceVars>>
otherThanPersonalize == <<dispatchVars, audienceVars, readVars, invoiceVars>>
otherThanAudience == <<dispatchVars, personalizeVars, readVars, invoiceVars>>
otherThanInvoice == <<dispatchVars, personalizeVars, audienceVars, readVars>>
otherThanRead == <<dispatchVars, personalizeVars, audienceVars, invoiceVars>>

----------------------------------------------------------------------------
(* Bounds *)
MaxCustomers == 2
MaxRequests == 1
MaxPieces == 2
MaxCalls == 3

----------------------------------------------------------------------------
(* Strings *)
Null == <<>>

Truthy(s) == s # Null

RECURSIVE Concat(_)
Concat(ss) == IF ss = <<>> THEN <<>> ELSE Head(ss) \o Concat(Tail(ss))

StartsWith(s, p) == Len(s) >= Len(p) /\ SubSeq(s, 1, Len(p)) = p

\* index of the first occurrence of p in s at or after position from, 0 if none
RECURSIVE IndexOf(_, _, _)
IndexOf(s, p, from) ==
    IF from + Len(p) - 1 > Len(s) THEN 0
    ELSE IF SubSeq(s, from, from + Len(p) - 1) = p THEN from
    ELSE IndexOf(s, p, from + 1)

(* "abc" written as a sequence of characters *)
SP == " "
sName == <<"{", "{", "n", "a", "m", "e", "}", "}">>
sPoints == <<"{", "{", "p", "o", "i", "n", "t", "s", "}", "}">>
sCustomer == <<"C", "u", "s", "t", "o", "m", "e", "r">>
sManager == <<"M", "a", "n", "a", "g", "e", "r">>
sTestEmail == <<"t", "e", "s", "t", "@", "r">>
sAna == <<"A", "n", "a">>

\* String.prototype.trim
RECURSIVE TrimLeft(_)
TrimLeft(s) == IF s # <<>> /\ Head(s) = SP THEN TrimLeft(Tail(s)) ELSE s

RECURSIVE TrimRight(_)
TrimRight(s) ==
    IF s # <<>> /\ s[Len(s)] = SP THEN TrimRight(SubSeq(s, 1, Len(s) - 1)) ELSE s

Trim(s) == TrimRight(TrimLeft(s))

\* Number.prototype.toString for a non-negative integer
RECURSIVE NumToString(_)
NumToString(n) ==
    LET d == <<"0", "1", "2", "3", "4", "5", "6", "7", "8", "9">>[(n % 10) + 1]
    IN IF n < 10 THEN <<d>> ELSE NumToString(n \div 10) \o <<d>>

\* The replacement-string patterns of String.prototype.replace for a regular
\* expression without capture groups: $$, $&, $` and $' are special, every
\* other character (a "$" before anything else included) stands for itself.
RECURSIVE ExpandReplacement(_, _, _, _)
ExpandReplacement(repl, s, at, n) ==
    IF repl = <<>> THEN <<>>
    ELSE IF Head(repl) = "$" /\ Len(repl) >= 2 /\ repl[2] \in {"$", "&", "`", "'"}
    THEN (CASE repl[2] = "$" -> <<"$">>
            [] repl[2] = "&" -> SubSeq(s, at, at + n - 1)
            [] repl[2] = "`" -> SubSeq(s, 1, at - 1)
            [] repl[2] = "'" -> SubSeq(s, at + n, Len(s)))
         \o ExpandReplacement(SubSeq(repl, 3, Len(repl)), s, at, n)
    ELSE <<Head(repl)>> \o ExpandReplacement(Tail(repl), s, at, n)

\* s.replace(/<pat>/g, repl) for a pattern that matches the literal text pat:
\* matches are found left to right in s, never in the text already inserted.
RECURSIVE ReplaceFrom(_, _, _, _)
ReplaceFrom(s, pat, repl, from) ==
    LET i == IndexOf(s, pat, from)
    IN IF i = 0 THEN SubSeq(s, from, Len(s))
       ELSE SubSeq(s, from, i - 1) \o ExpandReplacement(repl, s, i, Len(pat))
            \o ReplaceFrom(s, pat, repl, i + Len(pat))

ReplaceAll(s, pat, repl) == ReplaceFrom(s, pat, repl, 1)

\* new RegExp(`\\{\\{${key}\\}\\}`, 'g'): a key holding an unbalanced "("
\* is a SyntaxError; the keys of the model are otherwise plain word characters,
\* for which the expression matches the literal text {{key}}.
RegExpThrows(key) ==
    Cardinality({i \in 1..Len(key) : key[i] = "("}) #
    Cardinality({i \in 1..Len(key) : key[i] = ")"})

KeyPattern(key) == <<"{", "{">> \o key \o <<"}", "}">>

customerName(customer) ==
    IF Truthy(customer.first_name)
    THEN Trim(customer.first_name \o <<SP>> \o customer.last_name)
    ELSE sCustomer

pointsText(customer) ==
    IF customer.total_points = <<>> THEN <<"0">>
    ELSE NumToString(customer.total_points[1])

\* Object.keys(variables).forEach(...): variables is the sequence of the
\* object's [key, value] pairs in key order; a falsy value is replaced by ''.
RECURSIVE substituteVariables(_, _)
substituteVariables(message, variables) ==
    IF variables = <<>> THEN [threw |-> FALSE, value |-> message]
    ELSE IF RegExpThrows(Head(variables).key) THEN [threw |-> TRUE, value |-> <<>>]
    ELSE substituteVariables(
            ReplaceAll(message, KeyPattern(Head(variables).key), Head(variables).value),
            Tail(variables))

personalizeMessage(template, customer, variables) ==
    LET m1 == ReplaceAll(template, sName, customerName(customer))
        m2 == ReplaceAll(m1, sPoints, pointsText(customer))
    IN substituteVariables(m2, variables)


----------------------------------------------------------------------------
(* Campaign dispatch: data *)

Channels == {"whatsapp", "sms", "email", "push", "fax"}
ConsentFlags == {"whatsapp", "sms", "email", "push"}   \* the consent_<channel> columns
TestCustomerId == 0
DefaultDays == 30

AllConsent(v) == [c \in ConsentFlags |-> v]

\* The customers rows of the model (id is the row's position in the table).
Profiles ==
    { [first_name |-> sAna, last_name |-> Null, phone |-> <<"+", "1">>,
       email |-> <<"a", "@", "x">>, total_points |-> <<120>>, last_visit |-> <<40>>,
       tags |-> {"vip"}, consent |-> AllConsent("true")],
      [first_name |-> Null, last_name |-> Null, phone |-> <<"2">>,
       email |-> <<"b", "@", "x">>, total_points |-> <<>>, last_visit |-> <<>>,
       tags |-> {}, consent |-> AllConsent("false")],
      [first_name |-> <<"D">>, last_name |-> <<"O">>, phone |-> <<"2">>,
       email |-> Null, total_points |-> <<50>>, last_visit |-> <<30>>,
       tags |-> {"vip"}, consent |-> AllConsent("true")],
      [first_name |-> <<"E">>, last_name |-> Null, phone |-> Null,
       email |-> Null, total_points |-> <<0>>, last_visit |-> <<31>>,
       tags |-> {}, consent |-> [whatsapp |-> "true", sms |-> "null",
                                  email |-> "false", push |-> "null"]] }

RECURSIVE SeqsUpTo(_, _)
SeqsUpTo(S, n) ==
    IF n = 0 THEN {<<>>}
    ELSE LET shorter == SeqsUpTo(S, n - 1)
         IN shorter \cup {Append(q, x) : q \in {r \in shorter : Len(r) = n - 1}, x \in S}

WithIds(rows) ==
    [i \in 1..Len(rows) |->
        [id |-> i, first_name |-> rows[i].first_name, last_name |-> rows[i].last_name,
         phone |-> rows[i].phone, email |-> rows[i].email,
         total_points |-> rows[i].total_points, last_visit |-> rows[i].last_visit,
         tags |-> rows[i].tags, consent |-> rows[i].consent]]

sHi == <<"H", "i", SP>> \o sName \o <<SP>> \o sPoints
BadKeyVariables == << [key |-> <<"(">>, value |-> <<"x">>] >>

\* message_template and message_variables of the campaigns row
Contents ==
    { [message_template |-> Null, message_variables |-> <<>>],
      [message_template |-> sHi, message_variables |-> <<>>],
      [message_template |-> sHi, message_variables |-> BadKeyVariables] }

\* The requests of the model: the well-formed one, and one per way of failing
\* a check that depends on the request alone.
Requests ==
    LET ok == [authHeader |-> TRUE, tokenUser |-> "owner", bodyOk |-> TRUE,
               campaignId |-> "c1"]
    IN { ok, [ok EXCEPT !.authHeader = FALSE], [ok EXCEPT !.tokenUser = "none"],
         [ok EXCEPT !.tokenUser = "other"], [ok EXCEPT !.bodyOk = FALSE],
         [ok EXCEPT !.campaignId = "missing"],
         [ok EXCEPT !.authHeader = FALSE, !.campaignId = "missing"] }

\* audience_type and audience_filter of the campaigns the handler is run on
Audiences ==
    { [audience_type |-> "all", audience_filter |-> [none |-> TRUE]] }

ZeroResults == [total |-> 0, sent |-> 0, failed |-> 0, skipped |-> 0]
NoMetrics == [written |-> FALSE, total_targeted |-> 0, total_sent |-> 0, total_failed |-> 0]
\* sent_at of a campaign never sent (null); a sent campaign carries the time
\* of the update, here the number of the invocation that made it
NotSent == 0
NoResponse == [status |-> 0, success |-> FALSE, error |-> "", results |-> ZeroResults,
               testMode |-> FALSE]

----------------------------------------------------------------------------
(* Campaign dispatch: functions *)

\* faulty variant: a max_points of null is used as a bound (lte with null
\* matches no row)
calculateAudience_nullMaxBounds(rows, camp) ==
    LET f == camp.audience_filter
        has(k) == k \in DOMAIN f /\ f[k] # <<>>
    IN
    IF camp.audience_type = "tagged" /\ has("tags")
    THEN SelectSeq(rows, LAMBDA c : c.tags \cap f.tags[1] # {})
    ELSE IF camp.audience_type = "last_order_date"
    THEN LET days == IF has("days_since_last_order") /\ f.days_since_last_order[1] # 0
                     THEN f.days_since_last_order[1] ELSE DefaultDays
         IN SelectSeq(rows, LAMBDA c : c.last_visit # <<>> /\ c.last_visit[1] > days)
    ELSE IF camp.audience_type = "wallet_status"
    THEN LET given == "min_points" \in DOMAIN f
             minPoints == IF has("min_points") THEN f.min_points[1] ELSE 0
         IN SelectSeq(rows, LAMBDA c :
                /\ ~(given /\ f.min_points = <<>>)
                /\ c.total_points # <<>>
                /\ c.total_points[1] >= minPoints
                /\ ("max_points" \in DOMAIN f =>
                        f.max_points # <<>> /\ c.total_points[1] <= f.max_points[1]))
    ELSE rows

\* faulty variant: every criterion the filter has fields for is applied,
\* whatever the audience_type
calculateAudience_combined(rows, camp) ==
    LET f == camp.audience_filter
        has(k) == k \in DOMAIN f /\ f[k] # <<>>
    IN SelectSeq(rows, LAMBDA c :
          /\ has("tags") => c.tags \cap f.tags[1] # {}
          /\ has("days_since_last_order") =>
                (c.last_visit # <<>> /\ c.last_visit[1] > f.days_since_last_order[1])
          /\ has("min_points") =>
                (c.total_points # <<>> /\ c.total_points[1] >= f.min_points[1])
          /\ has("max_points") =>
                (c.total_points # <<>> /\ c.total_points[1] <= f.max_points[1]))

\* calculateAudience: the tenant's customers restricted by the branch that
\* campaign.audience_type selects.  A missing filter field is <<>>.
calculateAudience(rows, camp) ==
    LET f == camp.audience_filter
        has(k) == k \in DOMAIN f /\ f[k] # <<>>
    IN
    IF camp.audience_type = "tagged" /\ has("tags")
    THEN SelectSeq(rows, LAMBDA c : c.tags \cap f.tags[1] # {})
    ELSE IF camp.audience_type = "last_order_date"
    THEN LET days == IF has("days_since_last_order") /\ f.days_since_last_order[1] # 0
                     THEN f.days_since_last_order[1] ELSE DefaultDays
         IN SelectSeq(rows, LAMBDA c : c.last_visit # <<>> /\ c.last_visit[1] > days)
    ELSE IF camp.audience_type = "wallet_status"
    THEN LET given == "min_points" \in DOMAIN f     \* !== undefined
             minPoints == IF has("min_points") THEN f.min_points[1] ELSE 0
         IN SelectSeq(rows, LAMBDA c :
                /\ ~(given /\ f.min_points = <<>>)  \* gte(null): the query fails, data || []
                /\ c.total_points # <<>>
                /\ c.total_points[1] >= minPoints
                /\ (has("max_points") => c.total_points[1] <= f.max_points[1]))
    ELSE rows

\* The mock customer of test mode.
testCustomer(camp) ==
    [id |-> TestCustomerId, first_name |-> camp.restaurant_name, last_name |-> sManager,
     phone |-> camp.contact_phone, email |-> sTestEmail, total_points |-> <<100>>,
     last_visit |-> <<>>, tags |-> {}, consent |-> AllConsent("true")]

consentValue(customer, channel) ==
    IF channel \in DOMAIN customer.consent THEN customer.consent[channel] ELSE "undefined"

\* faulty variant: any value but false counts as consent
hasConsent_lax(customer, channel) == consentValue(customer, channel) # "false"

hasConsent(customer, channel) == consentValue(customer, channel) = "true"

\* faulty variant: the e-mail check is left out
missingContact_phoneOnly(customer, channel) ==
    channel \in {"whatsapp", "sms"} /\ ~Truthy(customer.phone)

missingContact(customer, channel) ==
    \/ channel \in {"whatsapp", "sms"} /\ ~Truthy(customer.phone)
    \/ channel = "email" /\ ~Truthy(customer.email)

formattedTo(to) == IF StartsWith(to, <<"+">>) THEN to ELSE <<"+">> \o to

HttpOutcomes == {"ok", "http_error", "fetch_throws"}

Call(customer, channel, to, body) ==
    [customer_id |-> customer.id, channel |-> channel, to |-> to, body |-> body]

httpResult(outcome) ==
    IF outcome = "ok" THEN [success |-> TRUE, error |-> ""]
    ELSE [success |-> FALSE, error |-> outcome]

\* sendWhatsApp / sendSMS / sendEmail: one fetch to the provider's API.
sendViaProvider(provider, wanted, customer, channel, to, message, outcome) ==
    IF provider = wanted
    THEN [result |-> httpResult(outcome), calls |-> <<Call(customer, channel, to, message)>>]
    ELSE [result |-> [success |-> FALSE, error |-> "Provider not supported"], calls |-> <<>>]

\* faulty variant: a channel that is none of the four is reported as sent
sendMessage_unsupportedSucceeds(channel, provider, customer, message, outcome) ==
    CASE channel = "whatsapp" ->
            sendViaProvider(provider, "twilio", customer, channel,
                            formattedTo(customer.phone), message, outcome)
      [] channel = "sms" ->
            sendViaProvider(provider, "twilio", customer, channel,
                            formattedTo(customer.phone), message, outcome)
      [] channel = "email" ->
            sendViaProvider(provider, "sendgrid", customer, channel,
                            customer.email, message, outcome)
      [] OTHER ->
            [result |-> [success |-> TRUE, error |-> ""], calls |-> <<>>]

\* sendMessage: never throws (its own try/catch turns a throw into a failure).
sendMessage(channel, provider, customer, message, outcome) ==
    CASE channel = "whatsapp" ->
            sendViaProvider(provider, "twilio", customer, channel,
                            formattedTo(customer.phone), message, outcome)
      [] channel = "sms" ->
            sendViaProvider(provider, "twilio", customer, channel,
                            formattedTo(customer.phone), message, outcome)
      [] channel = "email" ->
            sendViaProvider(provider, "sendgrid", customer, channel,
                            customer.email, message, outcome)
      [] channel = "push" ->
            [result |-> [success |-> TRUE, error |-> ""], calls |-> <<>>]
      [] OTHER ->
            [result |-> [success |-> FALSE, error |-> "Unsupported channel"], calls |-> <<>>]

\* faulty variant: the ownership check is left out
preDispatch_noOwnerCheck(authHeader, tokenUser, bodyOk, campaignId, tm) ==
    LET target == IF tm THEN <<testCustomer(campaign)>>
                  ELSE calculateAudience(customers, campaign)
        err ==
          CASE ~authHeader -> "No authorization header"
            [] tokenUser = "none" -> "Unauthorized"
            [] ~bodyOk -> "Unexpected end of JSON input"
            [] campaignId # campaign.id -> "Campaign not found"
            [] ~Truthy(campaign.message_template) -> "No message template found for campaign"
            [] tm /\ ~Truthy(campaign.contact_phone) -> "Please add a contact phone number"
            [] ~tm /\ Len(target) = 0 -> "No customers match your audience criteria"
            [] providerRow = "none" -> "No provider configured"
            [] OTHER -> ""
    IN [error |-> err, target |-> target]

\* Lines 26-115: the checks before the loop.  error = "" when all pass.
preDispatch(authHeader, tokenUser, bodyOk, campaignId, tm) ==
    LET target == IF tm THEN <<testCustomer(campaign)>>
                  ELSE calculateAudience(customers, campaign)
        err ==
          CASE ~authHeader -> "No authorization header"
            [] tokenUser = "none" -> "Unauthorized"
            [] ~bodyOk -> "Unexpected end of JSON input"
            [] campaignId # campaign.id -> "Campaign not found"
            [] campaign.owner_id # tokenUser -> "Unauthorized to send this campaign"
            [] ~Truthy(campaign.message_template) -> "No message template found for campaign"
            [] tm /\ ~Truthy(campaign.contact_phone) -> "Please add a contact phone number"
            [] ~tm /\ Len(target) = 0 -> "No customers match your audience criteria"
            [] providerRow = "none" -> "No provider configured"
            [] OTHER -> ""
    IN [error |-> err, target |-> target]

errorResponse(msg) ==
    [status |-> 400, success |-> FALSE, error |-> msg, results |-> ZeroResults,
     testMode |-> FALSE]

successResponse(res, tm) ==
    [status |-> 200, success |-> TRUE, error |-> "", results |-> res, testMode |-> tm]

sendRow(customer, channel, status, error) ==
    [customer_id |-> customer.id, channel |-> channel, status |-> status,
     error_message |-> error]


----------------------------------------------------------------------------
(* Campaign dispatch: the handler *)

DispatchInit ==
    /\ \E content \in Contents, ch \in Channels, phone \in {Null, <<"9">>},
          aud \in Audiences :
         campaign = [id |-> "c1", owner_id |-> "owner", restaurant_name |-> <<"R">>,
                     contact_phone |-> phone,
                     message_template |-> content.message_template,
                     message_variables |-> content.message_variables,
                     primary_channel |-> ch,
                     audience_type |-> aud.audience_type,
                     audience_filter |-> aud.audience_filter, status |-> "draft",
                     sent_at |-> NotSent]
    /\ customers \in {WithIds(q) : q \in SeqsUpTo(Profiles, MaxCustomers)}
    /\ providerRow \in {"none", "twilio", "sendgrid"}
    /\ campaign_sends = <<>>
    /\ campaign_metrics = NoMetrics
    /\ pc = "idle"
    /\ testMode = FALSE
    /\ targetCustomers = <<>>
    /\ idx = 0
    /\ results = ZeroResults
    /\ response = NoResponse
    /\ provider_calls = <<>>
    /\ reqCount = 0
    /\ startSnap = [sends |-> 0, calls |-> 0, status |-> "draft", sent_at |-> NotSent,
                    metrics |-> NoMetrics]
    /\ lastReq = [authHeader |-> TRUE, tokenUser |-> "owner", bodyOk |-> TRUE,
                  campaignId |-> "c1", testMode |-> FALSE]
    /\ outcomes = <<>>

\* A request arrives (lines 21-122): the checks, then the loop is entered.
Receive ==
    /\ pc \in {"idle", "done"}
    /\ reqCount < MaxRequests
    /\ \E req \in Requests, tm \in BOOLEAN :
         LET pre == preDispatch(req.authHeader, req.tokenUser, req.bodyOk,
                                req.campaignId, tm)
         IN /\ reqCount' = reqCount + 1
            /\ startSnap' = [sends |-> Len(campaign_sends), calls |-> Len(provider_calls),
                             status |-> campaign.status, sent_at |-> campaign.sent_at,
                             metrics |-> campaign_metrics]
            /\ lastReq' = [authHeader |-> req.authHeader, tokenUser |-> req.tokenUser,
                           bodyOk |-> req.bodyOk, campaignId |-> req.campaignId,
                           testMode |-> tm]
            /\ outcomes' = <<>>
            /\ idx' = 1
            /\ IF pre.error # ""
               THEN /\ pc' = "done"
                    /\ response' = errorResponse(pre.error)
                    /\ testMode' = FALSE
                    /\ targetCustomers' = <<>>
                    /\ results' = ZeroResults
               ELSE /\ pc' = "loop"
                    /\ response' = NoResponse
                    /\ testMode' = tm
                    /\ targetCustomers' = pre.target
                    /\ results' = [ZeroResults EXCEPT !.total = Len(pre.target)]
    /\ UNCHANGED <<campaign, customers, providerRow, campaign_sends, campaign_metrics,
                   provider_calls>>
    /\ UNCHANGED otherThanDispatch

\* faulty variant: a failed send is counted but not persisted
outcomeRows_noFailedRow(customer, ch, sendResult) ==
    IF sendResult.success THEN <<sendRow(customer, ch, "delivered", "")>> ELSE <<>>

\* The campaign_sends insert after sendMessage returned (lines 161-182).
outcomeRows(customer, ch, sendResult) ==
    IF sendResult.success
    THEN <<sendRow(customer, ch, "delivered", "")>>
    ELSE <<sendRow(customer, ch, "failed", sendResult.error)>>

\* One iteration of the for..of loop (lines 124-187).
iteration(customer, outcome) ==
    LET ch == campaign.primary_channel
        msg == personalizeMessage(campaign.message_template, customer,
                                  campaign.message_variables)
        sent == sendMessage(ch, providerRow, customer, msg.value, outcome)
    IN
    IF ~hasConsent(customer, ch) /\ ~testMode
    THEN [kind |-> "skipped_consent", calls |-> <<>>, rows |-> <<>>]
    ELSE IF missingContact(customer, ch)
    THEN [kind |-> "skipped_contact", calls |-> <<>>, rows |-> <<>>]
    ELSE IF msg.threw
    THEN [kind |-> "failed_throw", calls |-> <<>>, rows |-> <<>>]
    ELSE IF sent.result.success
    THEN [kind |-> "sent", calls |-> sent.calls,
          rows |-> outcomeRows(customer, ch, sent.result)]
    ELSE [kind |-> "failed_result", calls |-> sent.calls,
          rows |-> outcomeRows(customer, ch, sent.result)]

\* faulty variant: the catch block of the loop does not count the recipient
count_throwUncounted(res, kind) ==
    CASE kind \in {"skipped_consent", "skipped_contact"} ->
            [res EXCEPT !.skipped = @ + 1]
      [] kind = "sent" -> [res EXCEPT !.sent = @ + 1]
      [] kind = "failed_result" -> [res EXCEPT !.failed = @ + 1]
      [] OTHER -> res

\* results.skipped++ (lines 131, 137, 143), results.sent++ (162),
\* results.failed++ (172, 185)
count(res, kind) ==
    CASE kind \in {"skipped_consent", "skipped_contact"} ->
            [res EXCEPT !.skipped = @ + 1]
      [] kind = "sent" -> [res EXCEPT !.sent = @ + 1]
      [] OTHER -> [res EXCEPT !.failed = @ + 1]

\* faulty variant: no try/catch around the iteration, a throw reaches the top-level catch
ProcessRecipient_noCatch ==
    /\ pc = "loop"
    /\ idx <= Len(targetCustomers)
    /\ \E outcome \in HttpOutcomes :
         LET it == iteration(targetCustomers[idx], outcome)
         IN /\ provider_calls' = provider_calls \o it.calls
            /\ campaign_sends' = campaign_sends \o it.rows
            /\ outcomes' = Append(outcomes, it.kind)
            /\ IF it.kind = "failed_throw"
               THEN /\ pc' = "done"
                    /\ response' = errorResponse("Invalid regular expression")
                    /\ results' = results
               ELSE /\ pc' = pc
                    /\ response' = response
                    /\ results' = count(results, it.kind)
    /\ idx' = idx + 1
    /\ UNCHANGED <<campaign, customers, providerRow, campaign_metrics, testMode,
                   targetCustomers, reqCount, startSnap, lastReq>>
    /\ UNCHANGED otherThanDispatch

ProcessRecipient ==
    /\ pc = "loop"
    /\ idx <= Len(targetCustomers)
    /\ \E outcome \in HttpOutcomes :
         LET it == iteration(targetCustomers[idx], outcome)
         IN /\ results' = count(results, it.kind)
            /\ provider_calls' = provider_calls \o it.calls
            /\ campaign_sends' = campaign_sends \o it.rows
            /\ outcomes' = Append(outcomes, it.kind)
    /\ idx' = idx + 1
    /\ UNCHANGED <<campaign, customers, providerRow, campaign_metrics, pc, testMode,
                   targetCustomers, response, reqCount, startSnap, lastReq>>
    /\ UNCHANGED otherThanDispatch

\* The loop at the grain of its awaits.  An iteration that makes a provider
\* call is two steps: the request is sent and sendMessage is awaited (pc
\* "sending"), then the provider's answer arrives, the counter is incremented
\* and the outcome row is inserted.  An iteration without a provider call
\* (skip, throw, push, no integration) is one step.

\* faulty variant: the provider call is not awaited, the loop goes on to the
\* next recipient at once
BeginIteration_noAwait ==
    /\ pc = "loop"
    /\ idx <= Len(targetCustomers)
    /\ LET it == iteration(targetCustomers[idx], "ok")
       IN /\ provider_calls' = provider_calls \o it.calls
          /\ results' = count(results, it.kind)
          /\ campaign_sends' = campaign_sends \o it.rows
          /\ outcomes' = Append(outcomes, it.kind)
          /\ idx' = idx + 1
          /\ pc' = pc
    /\ UNCHANGED <<campaign, customers, providerRow, campaign_metrics, testMode,
                   targetCustomers, response, reqCount, startSnap, lastReq>>
    /\ UNCHANGED otherThanDispatch

BeginIteration ==
    /\ pc = "loop"
    /\ idx <= Len(targetCustomers)
    /\ LET it == iteration(targetCustomers[idx], "ok")
       IN IF it.calls = <<>>
          THEN /\ results' = count(results, it.kind)
               /\ campaign_sends' = campaign_sends \o it.rows
               /\ outcomes' = Append(outcomes, it.kind)
               /\ idx' = idx + 1
               /\ UNCHANGED <<provider_calls, pc>>
          ELSE /\ provider_calls' = provider_calls \o it.calls
               /\ pc' = "sending"
               /\ UNCHANGED <<results, campaign_sends, outcomes, idx>>
    /\ UNCHANGED <<campaign, customers, providerRow, campaign_metrics, testMode,
                   targetCustomers, response, reqCount, startSnap, lastReq>>
    /\ UNCHANGED otherThanDispatch

CompleteSend ==
    /\ pc = "sending"
    /\ \E outcome \in HttpOutcomes :
         LET it == iteration(targetCustomers[idx], outcome)
         IN /\ results' = count(results, it.kind)
            /\ campaign_sends' = campaign_sends \o it.rows
            /\ outcomes' = Append(outcomes, it.kind)
    /\ idx' = idx + 1
    /\ pc' = "loop"
    /\ UNCHANGED <<campaign, customers, providerRow, campaign_metrics, testMode,
                   targetCustomers, response, provider_calls, reqCount, startSnap,
                   lastReq>>
    /\ UNCHANGED otherThanDispatch

\* faulty variant: the update of the campaign and the metrics upsert are not
\* guarded by the test-mode flag
Finish_alwaysWrites ==
    /\ pc = "loop"
    /\ idx > Len(targetCustomers)
    /\ campaign' = [campaign EXCEPT !.status = "sent", !.sent_at = reqCount]
    /\ campaign_metrics' = [written |-> TRUE, total_targeted |-> results.total,
                            total_sent |-> results.sent,
                            total_failed |-> results.failed]
    /\ response' = successResponse(results, testMode)
    /\ pc' = "done"
    /\ UNCHANGED <<customers, providerRow, campaign_sends, testMode, targetCustomers, idx,
                   results, provider_calls, reqCount, startSnap, lastReq, outcomes>>
    /\ UNCHANGED otherThanDispatch

\* After the loop (lines 189-216): status, sent_at and metrics outside test mode,
\* the summary.
Finish ==
    /\ pc = "loop"
    /\ idx > Len(targetCustomers)
    /\ IF ~testMode
       THEN /\ campaign' = [campaign EXCEPT !.status = "sent", !.sent_at = reqCount]
            /\ campaign_metrics' = [written |-> TRUE, total_targeted |-> results.total,
                                    total_sent |-> results.sent,
                                    total_failed |-> results.failed]
       ELSE UNCHANGED <<campaign, campaign_metrics>>
    /\ response' = successResponse(results, testMode)
    /\ pc' = "done"
    /\ UNCHANGED <<customers, providerRow, campaign_sends, testMode, targetCustomers, idx,
                   results, provider_calls, reqCount, startSnap, lastReq, outcomes>>
    /\ UNCHANGED otherThanDispatch

----------------------------------------------------------------------------
(* personalizeMessage called on its own *)

sX == <<"{", "{", "x", "}", "}">>
sHello == <<"H", "e", "l", "l", "o", SP>>
sYouHave == <<",", SP, "y", "o", "u", SP, "h", "a", "v", "e", SP>>
sPointsWord == <<SP, "p", "o", "i", "n", "t", "s">>

ExampleTemplate == sHello \o sName \o sYouHave \o sPoints \o sPointsWord
ExampleCustomer == [first_name |-> sAna, last_name |-> Null, total_points |-> <<120>>]
ExampleOutput == sHello \o sAna \o sYouHave \o <<"1", "2", "0">> \o sPointsWord

\* the pieces templates are put together from
Pieces == { <<"H", "i", SP>>, sName, sPoints, sX, <<"{">>, <<"$">> }

Templates == {Concat(q) : q \in SeqsUpTo(Pieces, MaxPieces)} \cup {ExampleTemplate}

FirstNames == { sAna, Null, <<"$", "&">>, <<"A", "$", "$">>, sPoints }
LastNames == { Null, <<"L">> }
PointValues == { <<>>, <<0>>, <<120>> }
VariableSets ==
    { <<>>, << [key |-> <<"x">>, value |-> <<"V">>] >>,
      << [key |-> <<"x">>, value |-> <<>>] >>, BadKeyVariables }

PersonalizeIdle ==
    /\ p_pc = "off"
    /\ p_in = [template |-> <<>>, customer |-> ExampleCustomer, variables |-> <<>>]
    /\ p_out = [threw |-> FALSE, value |-> <<>>]

PersonalizeInit ==
    /\ p_pc = "call"
    /\ p_in \in [template : Templates,
                 customer : [first_name : FirstNames, last_name : LastNames,
                             total_points : PointValues],
                 variables : VariableSets]
    /\ p_out = [threw |-> FALSE, value |-> <<>>]

Personalize ==
    /\ p_pc = "call"
    /\ p_out' = personalizeMessage(p_in.template, p_in.customer, p_in.variables)
    /\ p_pc' = "returned"
    /\ UNCHANGED p_in
    /\ UNCHANGED otherThanPersonalize

----------------------------------------------------------------------------
(* calculateAudience called on its own *)

AudienceTypes == {"all", "tagged", "last_order_date", "wallet_status"}

\* audience_filter objects: a field that is absent is not in the record's
\* domain, a field that is null is <<>>.  The last two carry the fields of
\* every audience type at once.
AudienceFilters ==
    { [none |-> TRUE],
      [tags |-> <<{"vip"}>>],
      [tags |-> <<>>],
      [days_since_last_order |-> <<35>>],
      [days_since_last_order |-> <<0>>],
      [min_points |-> <<50>>],
      [min_points |-> <<50>>, max_points |-> <<>>],
      [min_points |-> <<50>>, max_points |-> <<100>>],
      [max_points |-> <<100>>],
      [min_points |-> <<>>, max_points |-> <<100>>],
      [tags |-> <<{"vip"}>>, days_since_last_order |-> <<35>>,
       min_points |-> <<50>>, max_points |-> <<100>>],
      [tags |-> <<{"vip"}>>, days_since_last_order |-> <<35>>,
       min_points |-> <<0>>, max_points |-> <<>>] }

NoAudience == [threw |-> FALSE, data |-> <<>>]

AudienceIdle ==
    /\ a_pc = "off"
    /\ a_in = [customers |-> <<>>, audience_type |-> "all",
               audience_filter |-> [none |-> TRUE]]
    /\ a_out = NoAudience

AudienceInit ==
    /\ a_pc = "call"
    /\ \E rows \in {WithIds(q) : q \in SeqsUpTo(Profiles, MaxCustomers)},
          ty \in AudienceTypes, f \in AudienceFilters :
         a_in = [customers |-> rows, audience_type |-> ty, audience_filter |-> f]
    /\ a_out = NoAudience

\* Lines 239-244 hand a query builder, not a list of ids, to .in('id', ...):
\* whether the client library accepts it as the value list (and the query is
\* the tag-assignment subquery) or throws on it is the library's choice.
takesTaggedBranch(camp) ==
    /\ camp.audience_type = "tagged"
    /\ "tags" \in DOMAIN camp.audience_filter
    /\ camp.audience_filter.tags # <<>>

\* calculateAudience is called (lines 232-260)
ResolveAudience ==
    /\ a_pc = "call"
    /\ \E builderAccepted \in BOOLEAN :
         a_out' = IF takesTaggedBranch(a_in) /\ ~builderAccepted
                  THEN [threw |-> TRUE, data |-> <<>>]
                  ELSE [threw |-> FALSE,
                        data |-> calculateAudience(a_in.customers, a_in)]
    /\ a_pc' = "returned"
    /\ UNCHANGED a_in
    /\ UNCHANGED otherThanAudience

----------------------------------------------------------------------------
(* Invoice lifecycle: data *)

Sessions == {"s1", "s2"}
Users == {"u1", "u2"}
NoId == 0

PlanTypes == {"trial", "monthly", "semiannual", "annual"}   \* subscription_plan_type

\* subscription_status: the labels the function's own message lists, and
\* 'paid', which line 480 casts to the type
StatusLabels == {"active", "expired", "cancelled", "past_due"}
                    \cup (IF enumHasPaid THEN {"paid"} ELSE {})

get_plan_amount(plan_type) ==
    CASE plan_type = "monthly" -> 299
      [] plan_type = "semiannual" -> 999
      [] plan_type = "annual" -> 1999
      [] plan_type = "trial" -> 0
      [] OTHER -> 0

get_plan_description(plan_type) ==
    CASE plan_type = "monthly" -> "Monthly Subscription - Full Access"
      [] plan_type = "semiannual" -> "6-Month Subscription - Full Access"
      [] plan_type = "annual" -> "Annual Subscription - Full Access + White Label"
      [] plan_type = "trial" -> "30-Day Free Trial"
      [] OTHER -> "Subscription"

\* the period end the webhook computes when none is given
defaultPeriodEnd(plan_type, start) ==
    [from |-> start,
     plus |-> CASE plan_type = "trial" -> "30 days"
                [] plan_type = "monthly" -> "1 month"
                [] plan_type = "semiannual" -> "6 months"
                [] OTHER -> "1 year"]

givenPeriodEnd(t) == [from |-> t, plus |-> "0"]

\* the arguments the calls of the model are made with (besides the user):
\* p_plan_type, p_status, p_period_start, p_period_end, <<>> for NULL
WebhookArgs ==
    { [plan |-> "monthly", status |-> "active", start |-> <<1>>, end |-> <<>>],
      [plan |-> "monthly", status |-> "active", start |-> <<>>, end |-> <<>>],
      [plan |-> "annual", status |-> "cancelled", start |-> <<1>>, end |-> <<9>>],
      [plan |-> "gold", status |-> "active", start |-> <<1>>, end |-> <<>>],
      [plan |-> "monthly", status |-> "bogus", start |-> <<1>>, end |-> <<>>] }

GenerateArgs ==
    { [plan |-> "monthly", start |-> 1, end |-> 8],
      [plan |-> "annual", start |-> 1, end |-> 9],
      [plan |-> "annual", start |-> 2, end |-> 9] }

\* how a session's last call ended: "none" | "raised" | "returned"
NoResult == [state |-> "none"]

IdleTx ==
    [pc |-> "idle", kind |-> "none", user |-> "u1", plan |-> "trial", status |-> "active",
     sub |-> NoId, period_start |-> 0, period_end |-> givenPeriodEnd(0), now |-> 0,
     number |-> 0, invoice_id |-> NoId, w_sub |-> {}, w_inv |-> {}, w_items |-> {},
     result |-> NoResult]

\* The n-th call's transaction starts at time n (NOW() is the start of the
\* transaction), and gen_random_uuid() gives it the id n for the one row it
\* can add to each table.
clock == calls + 1

\* rows a session sees: the committed ones, with its own uncommitted versions
visible(committed, written) ==
    {r \in committed : \A w \in written : w.id # r.id} \cup written

visibleInvoices(s) == visible(invoices, tx[s].w_inv)

SetMax(S) == CHOOSE m \in S : \A x \in S : x <= m

\* generate_invoice_number: MAX of the numbers after 'INV-', plus one
generate_invoice_number(rows) == SetMax({r.invoice_number : r \in rows} \cup {0}) + 1

sameKey(r, sub, start) == r.subscription_id = sub /\ r.period_start = start

\* faulty variant: no unique constraint on (subscription_id, period_start) to conflict with
conflictingInvoices_none(s) == {}

\* ON CONFLICT (subscription_id, period_start): the rows the insert conflicts with
conflictingInvoices(s) ==
    {r \in visibleInvoices(s) : sameKey(r, tx[s].sub, tx[s].period_start)}

\* the unique index makes the insert wait for a transaction in progress that
\* has written a row with the same key
invoiceKeyBusy(s) ==
    \E o \in Sessions \ {s} :
        \E r \in tx[o].w_inv : sameKey(r, tx[s].sub, tx[s].period_start)

\* faulty variant: DO UPDATE SET overwrites every column with the excluded row's
conflictUpdate_all(old, excluded) == [excluded EXCEPT !.id = old.id]

\* DO UPDATE SET status, paid_at, updated_at (lines 159-162)
conflictUpdate(old, excluded) ==
    [old EXCEPT !.status = excluded.status, !.paid_at = excluded.paid_at,
                !.updated_at = excluded.updated_at]

\* the row of the INSERT (lines 105-157)
excludedInvoice(s, id) ==
    [id |-> id, user_id |-> tx[s].user, subscription_id |-> tx[s].sub,
     invoice_number |-> tx[s].number, status |-> "paid",
     subtotal |-> get_plan_amount(tx[s].plan), total |-> get_plan_amount(tx[s].plan),
     currency |-> "USD", paid_at |-> tx[s].now, period_start |-> tx[s].period_start,
     period_end |-> tx[s].period_end,
     description |-> get_plan_description(tx[s].plan),
     created_at |-> tx[s].now, updated_at |-> tx[s].now]

\* The unique constraints of invoices beside the ON CONFLICT target, whose
\* definition is not among the migrations at hand: the primary key id and no
\* other; in particular none on invoice_number (the uniqueness of subscription
\* and period is described as the only consistency mechanism).  These are the
\* rows whose presence makes the insert of row raise unique_violation.
otherUniqueViolations(s, row) ==
    {r \in visibleInvoices(s) :
        r.id = row.id /\ ~sameKey(r, row.subscription_id, row.period_start)}

subscriptionRow(s, id) ==
    [id |-> id, user_id |-> tx[s].user, plan_type |-> tx[s].plan, status |-> tx[s].status,
     current_period_start |-> tx[s].period_start,
     current_period_end |-> tx[s].period_end, updated_at |-> tx[s].now]

raised(s) == [IdleTx EXCEPT !.result = [state |-> "raised"]]

----------------------------------------------------------------------------
(* Invoice lifecycle: the functions, one statement per step *)

InvoiceInit ==
    /\ subscriptions = {}
    /\ invoices = {}
    /\ invoice_line_items = {}
    /\ enumHasPaid \in BOOLEAN
    /\ tx = [s \in Sessions |-> IdleTx]
    /\ calls = 0

InvoiceIdle ==
    /\ subscriptions = {}
    /\ invoices = {}
    /\ invoice_line_items = {}
    /\ enumHasPaid = TRUE
    /\ tx = [s \in Sessions |-> IdleTx]
    /\ calls = 0

\* faulty variant: p_status is not cast to the enum before it is used
BeginWebhook_noStatusCheck(s) ==
    /\ tx[s].pc = "idle"
    /\ calls < MaxCalls
    /\ \E user \in Users, a \in WebhookArgs :
         LET v_start == IF a.start = <<>> THEN clock ELSE a.start[1]
             v_end == IF a.end = <<>> THEN defaultPeriodEnd(a.plan, v_start)
                      ELSE givenPeriodEnd(a.end[1])
             found == {r \in subscriptions : r.user_id = user}
         IN tx' = [tx EXCEPT ![s] =
                IF a.plan \notin PlanTypes
                THEN [raised(s) EXCEPT !.kind = "webhook", !.plan = a.plan,
                                       !.status = a.status]
                ELSE [IdleTx EXCEPT !.pc = "W2", !.kind = "webhook", !.user = user,
                        !.plan = a.plan, !.status = a.status, !.period_start = v_start,
                        !.period_end = v_end, !.now = clock,
                        !.sub = IF found = {} THEN NoId
                                ELSE (CHOOSE r \in found : TRUE).id]]
    /\ calls' = calls + 1
    /\ UNCHANGED <<subscriptions, invoices, invoice_line_items, enumHasPaid>>
    /\ UNCHANGED otherThanInvoice

\* handle_subscription_webhook is called (lines 376-430): the two casts, the
\* period, and the SELECT of the user's subscription.  A call
\* that a cast rejects keeps the rejected arguments in its record.
BeginWebhook(s) ==
    /\ tx[s].pc = "idle"
    /\ calls < MaxCalls
    /\ \E user \in Users, a \in WebhookArgs :
         LET v_start == IF a.start = <<>> THEN clock ELSE a.start[1]
             v_end == IF a.end = <<>> THEN defaultPeriodEnd(a.plan, v_start)
                      ELSE givenPeriodEnd(a.end[1])
             found == {r \in subscriptions : r.user_id = user}
         IN tx' = [tx EXCEPT ![s] =
                IF a.plan \notin PlanTypes \/ a.status \notin StatusLabels
                THEN [raised(s) EXCEPT !.kind = "webhook", !.plan = a.plan,
                                       !.status = a.status]
                ELSE [IdleTx EXCEPT !.pc = "W2", !.kind = "webhook", !.user = user,
                        !.plan = a.plan, !.status = a.status, !.period_start = v_start,
                        !.period_end = v_end, !.now = clock,
                        !.sub = IF found = {} THEN NoId
                                ELSE (CHOOSE r \in found : TRUE).id]]
    /\ calls' = calls + 1
    /\ UNCHANGED <<subscriptions, invoices, invoice_line_items, enumHasPaid>>
    /\ UNCHANGED otherThanInvoice

\* UPDATE or INSERT of the subscription (lines 432-477).  user_id is unique
\* (the other overload's ON CONFLICT (user_id) rests on it).
WriteSubscription(s) ==
    /\ tx[s].pc = "W2"
    /\ \A o \in Sessions \ {s} : \A r \in tx[o].w_sub : r.user_id # tx[s].user
    /\ IF tx[s].sub # NoId
       THEN tx' = [tx EXCEPT ![s].w_sub = {subscriptionRow(s, tx[s].sub)},
                             ![s].pc = "W3"]
       ELSE IF \E r \in subscriptions : r.user_id = tx[s].user
       THEN tx' = [tx EXCEPT ![s] = raised(s)]     \* unique_violation
       ELSE tx' = [tx EXCEPT ![s].w_sub = {subscriptionRow(s, tx[s].now)},
                             ![s].sub = tx[s].now, ![s].pc = "W3"]
    /\ UNCHANGED <<subscriptions, invoices, invoice_line_items, enumHasPaid, calls>>
    /\ UNCHANGED otherThanInvoice

\* IF v_status IN ('active', 'paid'::subscription_status) (line 480)
DecideInvoice(s) ==
    /\ tx[s].pc = "W3"
    /\ tx' = [tx EXCEPT ![s] =
                IF ~enumHasPaid THEN raised(s)      \* invalid input value for enum
                ELSE IF tx[s].status \in {"active", "paid"} THEN [@ EXCEPT !.pc = "G1"]
                ELSE [@ EXCEPT !.pc = "ret"]]
    /\ UNCHANGED <<subscriptions, invoices, invoice_line_items, enumHasPaid, calls>>
    /\ UNCHANGED otherThanInvoice

\* generate_invoice_for_subscription is called on its own, for a subscription
\* of the table.
BeginGenerate(s) ==
    /\ tx[s].pc = "idle"
    /\ calls < MaxCalls
    /\ \E r \in subscriptions, a \in GenerateArgs :
         tx' = [tx EXCEPT ![s] =
                  [IdleTx EXCEPT !.pc = "G1", !.kind = "generate", !.user = r.user_id,
                     !.plan = a.plan, !.sub = r.id, !.period_start = a.start,
                     !.period_end = givenPeriodEnd(a.end), !.now = clock]]
    /\ calls' = calls + 1
    /\ UNCHANGED <<subscriptions, invoices, invoice_line_items, enumHasPaid>>
    /\ UNCHANGED otherThanInvoice

\* lines 84-102: amount and invoice number
GenerateNumber(s) ==
    /\ tx[s].pc = "G1"
    /\ tx' = [tx EXCEPT ![s].number = generate_invoice_number(visibleInvoices(s)),
                        ![s].pc = "G2"]
    /\ UNCHANGED <<subscriptions, invoices, invoice_line_items, enumHasPaid, calls>>
    /\ UNCHANGED otherThanInvoice

\* lines 104-163: INSERT ... ON CONFLICT DO UPDATE ... RETURNING id.  The
\* statement may also raise (a constraint of the tables violated): called on
\* its own the transaction aborts; inside the webhook the block's handler
\* (lines 491-493) undoes the block and goes on with v_invoice_id null.
UpsertInvoice(s) ==
    /\ tx[s].pc = "G2"
    /\ ~invoiceKeyBusy(s)
    /\ \E raises \in (IF otherUniqueViolations(s, excludedInvoice(s, tx[s].now)) = {}
                      THEN BOOLEAN ELSE {TRUE}) :
         LET old == conflictingInvoices(s)
         IN IF raises
            THEN tx' = [tx EXCEPT ![s] =
                            IF tx[s].kind = "webhook"
                            THEN [@ EXCEPT !.pc = "ret", !.invoice_id = NoId]
                            ELSE raised(s)]
            ELSE IF old = {}
            THEN tx' = [tx EXCEPT ![s].w_inv = @ \cup {excludedInvoice(s, tx[s].now)},
                                  ![s].invoice_id = tx[s].now, ![s].pc = "G3"]
            ELSE LET o == CHOOSE r \in old : TRUE
                 IN tx' = [tx EXCEPT
                             ![s].w_inv = {w \in @ : w.id # o.id}
                                 \cup {conflictUpdate(o, excludedInvoice(s, tx[s].now))},
                             ![s].invoice_id = o.id, ![s].pc = "G3"]
    /\ UNCHANGED <<subscriptions, invoices, invoice_line_items, enumHasPaid, calls>>
    /\ UNCHANGED otherThanInvoice

\* the row of the line-item INSERT (lines 166-185); gen_random_uuid() is the
\* id of the call
lineItemRow(s) ==
    [id |-> tx[s].now, invoice_id |-> tx[s].invoice_id,
     description |-> get_plan_description(tx[s].plan), quantity |-> 1,
     unit_price |-> get_plan_amount(tx[s].plan), amount |-> get_plan_amount(tx[s].plan)]

\* The unique constraints of invoice_line_items, whose definition is not
\* among the migrations at hand: the primary key id and no other (the data
\* model gives a line item no unique attribute and allows several per
\* invoice).  These are the rows that inserting row conflicts with.
conflictingLineItems(s, row) ==
    {r \in visible(invoice_line_items, tx[s].w_items) : r.id = row.id}

\* lines 165-186: the line item, ON CONFLICT DO NOTHING
InsertLineItem(s) ==
    /\ tx[s].pc = "G3"
    /\ tx' = [tx EXCEPT ![s].w_items =
                            IF conflictingLineItems(s, lineItemRow(s)) = {}
                            THEN @ \cup {lineItemRow(s)} ELSE @,
                        ![s].pc = "ret"]
    /\ UNCHANGED <<subscriptions, invoices, invoice_line_items, enumHasPaid, calls>>
    /\ UNCHANGED otherThanInvoice

\* the function returns and the call's transaction commits
Return(s) ==
    /\ tx[s].pc = "ret"
    /\ subscriptions' = visible(subscriptions, tx[s].w_sub)
    /\ invoices' = visible(invoices, tx[s].w_inv)
    /\ invoice_line_items' = visible(invoice_line_items, tx[s].w_items)
    /\ tx' = [tx EXCEPT ![s] =
                [IdleTx EXCEPT !.result = [state |-> "returned"]]]
    /\ UNCHANGED <<enumHasPaid, calls>>
    /\ UNCHANGED otherThanInvoice

----------------------------------------------------------------------------
(* Reading invoices: row level security and the download-receipt function *)

\* who sends a request: a signed-in user, or someone without a session
Callers == Users \cup {"anon"}

\* an invoice row as generate_invoice_for_subscription writes it (lines 105-157)
issuedInvoice(id, user, plan, start) ==
    [id |-> id, user_id |-> user, subscription_id |-> id,
     invoice_number |-> id, status |-> "paid",
     subtotal |-> get_plan_amount(plan), total |-> get_plan_amount(plan),
     currency |-> "USD", paid_at |-> start, period_start |-> start,
     period_end |-> defaultPeriodEnd(plan, start),
     description |-> get_plan_description(plan),
     created_at |-> start, updated_at |-> start]

IssuedInvoices ==
    { issuedInvoice(1, "u1", "monthly", 1), issuedInvoice(2, "u2", "annual", 1),
      issuedInvoice(3, "u1", "annual", 2), issuedInvoice(4, "u2", "trial", 3) }

\* the ids a request can name: those of the rows, and one of no row
InvoiceIds == {r.id : r \in IssuedInvoices} \cup {NoId}

NoRead == [status |-> 0, rows |-> {}, total |-> <<>>]

\* parseFloat of a column holding a non-negative whole number: the value is
\* converted to its decimal string and the digits are read back
DigitValue(c) == CHOOSE d \in 0..9 : NumToString(d) = <<c>>

RECURSIVE ParseDigits(_)
ParseDigits(s) ==
    IF s = <<>> THEN 0
    ELSE 10 * ParseDigits(SubSeq(s, 1, Len(s) - 1)) + DigitValue(s[Len(s)])

parseFloat(v) == ParseDigits(NumToString(v))

\* the digits of n in groups of three separated by commas (en-US grouping)
RECURSIVE Grouped(_)
Grouped(n) ==
    IF n < 1000 THEN NumToString(n)
    ELSE Grouped(n \div 1000) \o <<",">>
            \o NumToString((n % 1000) \div 100) \o NumToString((n % 100) \div 10)
            \o NumToString(n % 10)

\* formatCurrency (lines 432-439): Intl.NumberFormat('en-US', currency, exactly
\* two fraction digits) of amount / 100, for a non-negative whole amount
formatCurrency(amount, currency) ==
    LET units == amount \div 100
        hundredths == amount % 100
    IN (IF currency = "USD" THEN <<"$">> ELSE <<currency, " ">>)
          \o Grouped(units) \o <<".">>
          \o NumToString(hundredths \div 10) \o NumToString(hundredths % 10)

\* the total as generatePDF prints it (lines 86, 87, 381)
renderedTotal(invoice) ==
    LET total == IF parseFloat(invoice.total) = 0 THEN 0 ELSE parseFloat(invoice.total)
        currency == IF invoice.currency = "" THEN "USD" ELSE invoice.currency
    IN formatCurrency(total, currency)

ReadIdle ==
    /\ q_pc = "off"
    /\ q_req = [caller |-> "anon", path |-> "none", invoiceId |-> NoId]
    /\ q_resp = NoRead

\* policy "Users can read own invoices": FOR SELECT TO authenticated
\* USING (auth.uid() = user_id); no policy of the migration is for the role
\* of a caller without a session
rowsReadableBy(caller) ==
    IF caller \in Users THEN {r \in invoices : r.user_id = caller} ELSE {}

\* a select on invoices through the API with the caller's own token
SelectInvoices ==
    /\ q_pc \in {"ready", "answered"}
    /\ \E caller \in Callers :
         /\ q_req' = [caller |-> caller, path |-> "select", invoiceId |-> NoId]
         /\ q_resp' = [status |-> 200, rows |-> rowsReadableBy(caller), total |-> <<>>]
    /\ q_pc' = "answered"
    /\ UNCHANGED otherThanRead

\* download-receipt (lines 41-120): the client is created with the service
\* role key, which row level security does not restrict; the row is looked
\* up by the id of the URL; nothing of the request's sender is read.  The
\* answer is the receipt, of which the model keeps the row it was made from
\* and the text of its total.
DownloadReceipt ==
    /\ q_pc \in {"ready", "answered"}
    /\ \E caller \in Callers, invoiceId \in InvoiceIds :
         LET found == {r \in invoices : r.id = invoiceId}
         IN /\ q_req' = [caller |-> caller, path |-> "download-receipt",
                         invoiceId |-> invoiceId]
            /\ q_resp' = IF invoiceId = NoId \/ found = {}
                         THEN [status |-> 400, rows |-> {}, total |-> <<>>]
                         ELSE [status |-> 200, rows |-> found,
                               total |-> renderedTotal(CHOOSE r \in found : TRUE)]
    /\ q_pc' = "answered"
    /\ UNCHANGED otherThanRead

----------------------------------------------------------------------------
(* Specifications *)

DispatchIdle ==
    /\ campaign = [id |-> "c1", owner_id |-> "owner", restaurant_name |-> <<"R">>,
                   contact_phone |-> Null, message_template |-> Null,
                   message_variables |-> <<>>, primary_channel |-> "push",
                   audience_type |-> "all", audience_filter |-> [none |-> TRUE],
                   status |-> "draft", sent_at |-> NotSent]
    /\ customers = <<>>
    /\ providerRow = "none"
    /\ campaign_sends = <<>>
    /\ campaign_metrics = NoMetrics
    /\ pc = "off"
    /\ testMode = FALSE
    /\ targetCustomers = <<>>
    /\ idx = 0
    /\ results = ZeroResults
    /\ response = NoResponse
    /\ provider_calls = <<>>
    /\ reqCount = 0
    /\ startSnap = [sends |-> 0, calls |-> 0, status |-> "draft", sent_at |-> NotSent,
                    metrics |-> NoMetrics]
    /\ lastReq = [authHeader |-> TRUE, tokenUser |-> "owner", bodyOk |-> TRUE,
                  campaignId |-> "c1", testMode |-> FALSE]
    /\ outcomes = <<>>

\* the dispatch handler
Init == DispatchInit /\ PersonalizeIdle /\ AudienceIdle /\ ReadIdle /\ InvoiceIdle

Next == Receive \/ ProcessRecipient \/ Finish

Spec == Init /\ [][Next]_vars

\* personalizeMessage on inputs of its own
PersonalizeSpecInit ==
    PersonalizeInit /\ DispatchIdle /\ AudienceIdle /\ ReadIdle /\ InvoiceIdle

PersonalizeNext == Personalize

PersonalizeSpec == PersonalizeSpecInit /\ [][PersonalizeNext]_vars

\* the invoice functions called by concurrent sessions
InvoiceSpecInit ==
    InvoiceInit /\ DispatchIdle /\ PersonalizeIdle /\ AudienceIdle /\ ReadIdle

InvoiceNext ==
    \E s \in Sessions :
        \/ BeginWebhook(s)
        \/ WriteSubscription(s)
        \/ DecideInvoice(s)
        \/ BeginGenerate(s)
        \/ GenerateNumber(s)
        \/ UpsertInvoice(s)
        \/ InsertLineItem(s)
        \/ Return(s)

InvoiceSpec == InvoiceSpecInit /\ [][InvoiceNext]_vars

\* the dispatch handler at the grain of its awaits
SerialNext == Receive \/ BeginIteration \/ CompleteSend \/ Finish

SerialSpec == Init /\ [][SerialNext]_vars

\* reads of the invoices some calls of generate_invoice_for_subscription left
ReadSpecInit ==
    /\ q_pc = "ready"
    /\ q_req = [caller |-> "anon", path |-> "none", invoiceId |-> NoId]
    /\ q_resp = NoRead
    /\ subscriptions = {}
    /\ invoices \in SUBSET IssuedInvoices
    /\ invoice_line_items = {}
    /\ enumHasPaid = TRUE
    /\ tx = [s \in Sessions |-> IdleTx]
    /\ calls = 0
    /\ DispatchIdle /\ PersonalizeIdle /\ AudienceIdle

ReadNext == SelectInvoices \/ DownloadReceipt

ReadSpec == ReadSpecInit /\ [][ReadNext]_vars

\* calculateAudience on inputs of its own
AudienceSpecInit ==
    AudienceInit /\ DispatchIdle /\ PersonalizeIdle /\ ReadIdle /\ InvoiceIdle

AudienceNext == ResolveAudience

AudienceSpec == AudienceSpecInit /\ [][AudienceNext]_vars

----------------------------------------------------------------------------
(* Properties of the campaign dispatch *)

chan == campaign.primary_channel

\* what this invocation appended to campaign_sends, what it sent to providers
dispatchSends == SubSeq(campaign_sends, startSnap.sends + 1, Len(campaign_sends))
dispatchCalls == SubSeq(provider_calls, startSnap.calls + 1, Len(provider_calls))

rowsOf(id) == {k \in DOMAIN dispatchSends : dispatchSends[k].customer_id = id}
callsTo(id) == {k \in DOMAIN dispatchCalls : dispatchCalls[k].customer_id = id}

processed == 1..(idx - 1)

lacksConsent(c) == ~(chan \in DOMAIN c.consent /\ c.consent[chan] = "true")

lacksContact(c) ==
    \/ chan \in {"whatsapp", "sms"} /\ c.phone = <<>>
    \/ chan = "email" /\ c.email = <<>>

\* C1: outside test mode a recipient whose consent_<channel> is not true is
\* skipped: no outcome row and no provider call for them, the skipped counter
\* covers them and sent + failed covers only the others.
C1_NoConsentSkipped ==
    ~testMode =>
        LET nc == {i \in processed : lacksConsent(targetCustomers[i])}
        IN /\ \A i \in nc : /\ rowsOf(targetCustomers[i].id) = {}
                            /\ callsTo(targetCustomers[i].id) = {}
           /\ results.skipped >= Cardinality(nc)
           /\ results.sent + results.failed <= Cardinality(processed) - Cardinality(nc)

C1_Witness ==
    /\ pc = "done" /\ response.success /\ ~testMode
    /\ \E i \in processed : lacksConsent(targetCustomers[i])
    /\ results.skipped >= 1 /\ results.sent >= 1

\* C2: in test mode and outside it, a recipient without the contact field
\* the channel needs is skipped: no provider call, no row, not counted as
\* sent or failed.
C2_NoContactSkipped ==
    LET nc == {i \in processed : lacksContact(targetCustomers[i])}
    IN /\ \A i \in nc : /\ rowsOf(targetCustomers[i].id) = {}
                        /\ callsTo(targetCustomers[i].id) = {}
       /\ results.skipped >= Cardinality(nc)
       /\ results.sent + results.failed <= Cardinality(processed) - Cardinality(nc)

C2_Witness ==
    /\ pc = "done" /\ response.success
    /\ \E i \in processed : /\ lacksContact(targetCustomers[i])
                            /\ ~lacksConsent(targetCustomers[i])
    /\ results.skipped >= 1 /\ results.sent >= 1

C4_BatchCompletes ==
    [][pc = "loop" =>
        \/ /\ pc' = "loop"
           /\ idx <= Len(targetCustomers) /\ idx' = idx + 1
           /\ Len(outcomes') = idx
           /\ response' = NoResponse
           /\ targetCustomers' = targetCustomers
        \/ /\ pc' = "done"
           /\ idx = Len(targetCustomers) + 1
           /\ Len(outcomes) = Len(targetCustomers)
           /\ response'.status = 200 /\ response'.success
           /\ response'.results.total = Len(targetCustomers)
           /\ response'.results = results]_vars

C4_Witness ==
    /\ pc = "done" /\ response.success
    /\ Len(targetCustomers) = 2
    /\ outcomes[1] \in {"failed_throw", "failed_result"}
    /\ response.results.total = 2 /\ response.results.failed >= 1

\* C5 as claimed: at the end of the loop the failed rows written by the
\* dispatch are as many as results.failed.
C5_FailedCounterHasRows ==
    (pc = "done" /\ response.success) =>
        Cardinality({k \in DOMAIN dispatchSends : dispatchSends[k].status = "failed"})
            = results.failed

\* C6 as claimed: a test-mode dispatch has total 1, messages none of the
\* tenant's customers, and every provider call it makes goes to the
\* restaurant's contact_phone (as given or with the "+" prefix).
C6_TestModeOnlyContactPhone ==
    (testMode /\ pc \in {"loop", "done"}) =>
        /\ results.total = 1
        /\ \A k \in DOMAIN dispatchCalls :
            /\ dispatchCalls[k].customer_id = TestCustomerId
            /\ dispatchCalls[k].to \in
                 {campaign.contact_phone, <<"+">> \o campaign.contact_phone}

\* the request failed one of the checks made before the loop
failsPreDispatch ==
    \/ ~lastReq.authHeader
    \/ lastReq.tokenUser = "none"
    \/ lastReq.campaignId # campaign.id
    \/ lastReq.tokenUser # campaign.owner_id
    \/ campaign.message_template = <<>>
    \/ ~lastReq.testMode /\ calculateAudience(customers, campaign) = <<>>
    \/ providerRow = "none"

\* C9: a request that fails a pre-dispatch check is answered with status 400
\* and an error body; it made no provider call, wrote no outcome row and left
\* the campaign's status and metrics as they were.
C9_PreDispatchFailureIs400 ==
    (reqCount >= 1 /\ failsPreDispatch) =>
        /\ pc = "done"
        /\ response.status = 400 /\ ~response.success /\ response.error # ""
        /\ dispatchCalls = <<>>
        /\ dispatchSends = <<>>
        /\ campaign.status = startSnap.status
        /\ campaign_metrics = startSnap.metrics

C9_Witness ==
    /\ pc = "done" /\ reqCount >= 1
    /\ lastReq.tokenUser = "other" /\ lastReq.authHeader
    /\ response.status = 400
    /\ customers # <<>> /\ providerRow # "none"


----------------------------------------------------------------------------
(* Properties of calculateAudience *)

audienceFilter == a_in.audience_filter

given(k) == k \in DOMAIN audienceFilter
givenNotNull(k) == given(k) /\ audienceFilter[k] # <<>>

\* the three criteria, each on its own.  A comparison with null is true of
\* no row; a customer without a balance or a visit date is in no range.
hasOneOfTheTags(c) == givenNotNull("tags") /\ c.tags \cap audienceFilter.tags[1] # {}

dayCount ==
    IF givenNotNull("days_since_last_order") /\ audienceFilter.days_since_last_order[1] # 0
    THEN audienceFilter.days_since_last_order[1] ELSE 30

visitedLongAgo(c) == c.last_visit # <<>> /\ c.last_visit[1] > dayCount

lowerBound == IF given("min_points") THEN audienceFilter.min_points ELSE <<0>>

inPointRange(c) ==
    /\ c.total_points # <<>>
    /\ lowerBound # <<>> /\ c.total_points[1] >= lowerBound[1]
    /\ givenNotNull("max_points") => c.total_points[1] <= audienceFilter.max_points[1]

\* C11: for audience_type wallet_status the call returns exactly the
\* customers whose total_points is in [min, max], min being min_points or 0
\* when the filter has none, the upper bound applied only when max_points is
\* given and not null; with {min_points: 50, max_points: null} these are the
\* customers with a balance of at least 50.
C11_PointRange ==
    (a_pc = "returned" /\ a_in.audience_type = "wallet_status") =>
        /\ ~a_out.threw
        /\ a_out.data = SelectSeq(a_in.customers, inPointRange)
        /\ audienceFilter = [min_points |-> <<50>>, max_points |-> <<>>] =>
              a_out.data = SelectSeq(a_in.customers,
                              LAMBDA c : c.total_points # <<>> /\ c.total_points[1] >= 50)

\* {min_points: 50, max_points: null} on a table with a balance above 100
\* and one below 50: the first is returned, the second is not
C11_Witness ==
    /\ a_pc = "returned" /\ a_in.audience_type = "wallet_status"
    /\ audienceFilter = [min_points |-> <<50>>, max_points |-> <<>>]
    /\ Len(a_in.customers) = 2 /\ Len(a_out.data) = 1
    /\ a_out.data[1].total_points = <<120>>
    /\ \E i \in 1..2 : a_in.customers[i].total_points = <<0>>

unknownChannel == chan \notin {"whatsapp", "sms", "email", "push"}

unsupportedProvider ==
    \/ chan \in {"whatsapp", "sms"} /\ providerRow # "twilio"
    \/ chan = "email" /\ providerRow # "sendgrid"

\* the keys of message_variables are plain words (no regular expression is
\* malformed)
keysAreWords ==
    \A k \in DOMAIN campaign.message_variables :
        \A j \in DOMAIN campaign.message_variables[k].key :
            campaign.message_variables[k].key[j] \notin {"(", ")"}

\* the iteration for this recipient gets as far as sendMessage
reachesSend(c) == (testMode \/ ~lacksConsent(c)) /\ ~lacksContact(c) /\ keysAreWords

\* C14: for every recipient whose iteration reaches sendMessage the call
\* returns a value (the iteration ends as sent or as a failed result, never
\* in the catch block); with an unrecognized channel or an unsupported
\* provider the value is a failure and no provider call is made; every failure
\* value, that of a provider call that threw included, is persisted as
\* exactly one failed row carrying the error, and is counted in failed.
C14_SendFailureIsFailedRow ==
    /\ \A i \in processed :
         LET c == targetCustomers[i]
             rows == rowsOf(c.id)
         IN reachesSend(c) =>
              /\ outcomes[i] \in {"sent", "failed_result"}
              /\ (unknownChannel \/ unsupportedProvider) =>
                    /\ outcomes[i] = "failed_result"
                    /\ callsTo(c.id) = {}
                    /\ \A k \in rows : dispatchSends[k].error_message =
                          (IF unknownChannel THEN "Unsupported channel"
                           ELSE "Provider not supported")
              /\ outcomes[i] = "failed_result" =>
                    /\ Cardinality(rows) = 1
                    /\ \A k \in rows : /\ dispatchSends[k].status = "failed"
                                        /\ dispatchSends[k].error_message # ""
    /\ results.failed >=
         Cardinality({i \in processed : outcomes[i] = "failed_result"})

\* a dispatch to two recipients: the provider call for the first threw, the
\* failure was persisted, and the second was sent
C14_Witness ==
    /\ pc = "done" /\ response.success
    /\ Len(targetCustomers) = 2
    /\ outcomes = <<"failed_result", "sent">>
    /\ dispatchSends[1].status = "failed"
    /\ dispatchSends[1].error_message = "fetch_throws"
    /\ response.results.failed = 1 /\ response.results.sent = 1

\* position in the audience of the recipient a provider call was made for
positionOf(call) ==
    CHOOSE i \in 1..Len(targetCustomers) : targetCustomers[i].id = call.customer_id

\* provider calls of this dispatch whose sendMessage has not returned yet
callsInFlight ==
    {k \in DOMAIN dispatchCalls : positionOf(dispatchCalls[k]) > Len(outcomes)}

\* C15, the state part: within a dispatch no recipient has more than one
\* provider call, the calls were made in the order of the audience list, and
\* at most one is in flight.
C15_OneCallInFlight ==
    pc \in {"loop", "sending", "done"} =>
        /\ \A i \in 1..Len(targetCustomers) :
             Cardinality(callsTo(targetCustomers[i].id)) <= 1
        /\ \A k1, k2 \in DOMAIN dispatchCalls :
             k1 < k2 => positionOf(dispatchCalls[k1]) < positionOf(dispatchCalls[k2])
        /\ Cardinality(callsInFlight) <= 1

\* C15: a provider call starts only when none is in flight; it is the first
\* and only call for the recipient at the loop's position; the calls made
\* before it were for recipients earlier in the audience list, and each of
\* those has been answered and its outcome row written.
C15_SerialCalls ==
    [][provider_calls' # provider_calls =>
        /\ callsInFlight = {}
        /\ Len(provider_calls') = Len(provider_calls) + 1
        /\ provider_calls'[Len(provider_calls')].customer_id = targetCustomers[idx].id
        /\ callsTo(targetCustomers[idx].id) = {}
        /\ \A k \in DOMAIN dispatchCalls : positionOf(dispatchCalls[k]) < idx
        /\ Cardinality(callsInFlight') = 1
        /\ \A j \in 1..(idx - 1) :
             callsTo(targetCustomers[j].id) # {} =>
                /\ j <= Len(outcomes)
                /\ Cardinality(rowsOf(targetCustomers[j].id)) = 1]_vars

\* the call for the second recipient is in flight, the first recipient's
\* call has been answered and its row is written
C15_Witness ==
    /\ pc = "sending" /\ idx = 2
    /\ Len(dispatchCalls) = 2 /\ Len(dispatchSends) = 1
    /\ Cardinality(callsInFlight) = 1
    /\ dispatchSends[1].customer_id = targetCustomers[1].id

\* C19 as claimed: on whatever channel, a recipient counted as sent, and
\* every recipient with a 'delivered' row, had a provider call made for them
\* (which returned success).
C19_SentOnlyAfterProviderSuccess ==
    /\ \A i \in processed :
         outcomes[i] = "sent" => callsTo(targetCustomers[i].id) # {}
    /\ \A k \in DOMAIN dispatchSends :
         dispatchSends[k].status = "delivered" =>
            callsTo(dispatchSends[k].customer_id) # {}

\* the part of C19 that holds: on whatsapp, sms and email it is so
C19_ThreeChannels ==
    chan \in {"whatsapp", "sms", "email"} => C19_SentOnlyAfterProviderSuccess

\* C20: in the loop every recipient processed has incremented exactly one
\* of sent, failed and skipped, and total is the size of the resolved
\* audience; so in every success response sent + failed + skipped = total =
\* the number of recipients.
C20_CountersAddUp ==
    /\ pc = "loop" =>
         /\ results.total = Len(targetCustomers)
         /\ results.sent + results.failed + results.skipped = Cardinality(processed)
         /\ results.sent = Cardinality({i \in processed : outcomes[i] = "sent"})
         /\ results.skipped = Cardinality({i \in processed :
                outcomes[i] \in {"skipped_consent", "skipped_contact"}})
    /\ (pc = "done" /\ response.success) =>
         /\ response.results.total = Len(targetCustomers)
         /\ response.results.sent + response.results.failed + response.results.skipped
              = response.results.total

\* a dispatch to two recipients, one skipped and one whose processing threw
C20_Witness ==
    /\ pc = "done" /\ response.success
    /\ outcomes = <<"skipped_consent", "failed_throw">>
    /\ response.results = [total |-> 2, sent |-> 0, failed |-> 1, skipped |-> 1]

\* what the metrics upsert of the finished dispatch holds, counted from how
\* each recipient's iteration ended
metricsOfRun ==
    [written |-> TRUE,
     total_targeted |-> Len(targetCustomers),
     total_sent |-> Cardinality({i \in DOMAIN outcomes : outcomes[i] = "sent"}),
     total_failed |-> Cardinality({i \in DOMAIN outcomes :
                         outcomes[i] \in {"failed_throw", "failed_result"}})]

\* C21: a test-mode dispatch, at every point of its run and after it, has left
\* the campaign's status and sent_at and the campaign_metrics row as they were
\* when the request arrived; a non-test dispatch leaves them alone while its
\* loop runs and, once the loop is complete, has set status 'sent', stamped
\* sent_at with the time of this run and written the metrics of this run.
C21_TestModeLeavesCampaign ==
    /\ (reqCount >= 1 /\ lastReq.testMode) =>
         /\ campaign.status = startSnap.status
         /\ campaign.sent_at = startSnap.sent_at
         /\ campaign_metrics = startSnap.metrics
    /\ (pc = "loop" /\ ~testMode) =>
         /\ campaign.status = startSnap.status
         /\ campaign.sent_at = startSnap.sent_at
         /\ campaign_metrics = startSnap.metrics
    /\ (pc = "done" /\ response.success /\ ~lastReq.testMode) =>
         /\ campaign.status = "sent"
         /\ campaign.sent_at = reqCount
         /\ campaign_metrics = metricsOfRun

\* a test-mode dispatch that completed and delivered its one message, with the
\* campaign still a draft and no metrics written
C21_Witness ==
    /\ pc = "done" /\ response.success /\ lastReq.testMode
    /\ response.results.sent = 1
    /\ Len(dispatchCalls) = 1
    /\ campaign.status = "draft" /\ campaign.sent_at = NotSent
    /\ campaign_metrics = NoMetrics

----------------------------------------------------------------------------
(* Properties of reading invoices *)

\* C12 as claimed: whatever the path of the request, the invoice rows whose
\* data an answer carries are rows of the caller: user_id is the caller's
\* identity.
C12_OnlyOwnInvoices ==
    q_pc = "answered" => \A r \in q_resp.rows : r.user_id = q_req.caller

\* the part of C12 that holds: a select under row level security returns
\* rows of the caller only
C12_SelectOnlyOwn ==
    (q_pc = "answered" /\ q_req.path = "select") =>
        \A r \in q_resp.rows : r.user_id = q_req.caller

\* a plan's fixed price written as an amount of money: the price in whole
\* currency units with two fraction digits
priceText(plan) == formatCurrency(100 * get_plan_amount(plan), "USD")

\* C23 as claimed: the total printed on the receipt of an invoice that
\* generate_invoice_for_subscription created for a plan is that plan's fixed
\* price (a monthly invoice, price 299, is rendered as $299.00).
C23_RenderedTotalIsPlanPrice ==
    (q_pc = "answered" /\ q_req.path = "download-receipt" /\ q_resp.status = 200) =>
        \A r \in q_resp.rows : \A plan \in PlanTypes :
            r.description = get_plan_description(plan) =>
                q_resp.total = priceText(plan)

\* what the receipt of a monthly invoice shows
C23_MonthlyRendered ==
    (q_pc = "answered" /\ q_req.path = "download-receipt" /\ q_resp.status = 200) =>
        \A r \in q_resp.rows :
            r.description = get_plan_description("monthly") =>
                /\ r.total = 299
                /\ q_resp.total = <<"$", "2", ".", "9", "9">>
                /\ priceText("monthly") = <<"$", "2", "9", "9", ".", "0", "0">>

----------------------------------------------------------------------------
(* Properties of personalizeMessage *)

\* literal replacement of every occurrence of pat in s, left to right
RECURSIVE LiteralReplace(_, _, _)
LiteralReplace(s, pat, text) ==
    IF s = <<>> THEN <<>>
    ELSE IF StartsWith(s, pat)
    THEN text \o LiteralReplace(SubSeq(s, Len(pat) + 1, Len(s)), pat, text)
    ELSE <<Head(s)>> \o LiteralReplace(Tail(s), pat, text)

displayName(c) ==
    IF c.first_name = <<>> THEN sCustomer
    ELSE Trim(c.first_name \o <<SP>> \o c.last_name)

balanceText(c) ==
    IF c.total_points = <<>> THEN <<"0">> ELSE NumToString(c.total_points[1])

\* C10 as claimed, for a campaign without variables of its own: the result is
\* the template with every {{name}} replaced by the display name, then every
\* {{points}} by the point balance, all other text unchanged.
C10_PlaceholdersReplaced ==
    (p_pc = "returned" /\ p_in.variables = <<>>) =>
        /\ ~p_out.threw
        /\ p_out.value =
             LiteralReplace(LiteralReplace(p_in.template, sName, displayName(p_in.customer)),
                            sPoints, balanceText(p_in.customer))

\* the two instances the claim names: the Ana example, and a template without
\* placeholder
C10_Instances ==
    (p_pc = "returned" /\ p_in.variables = <<>>) =>
        /\ (p_in.template = ExampleTemplate /\ p_in.customer = ExampleCustomer)
              => p_out.value = ExampleOutput
        /\ (IndexOf(p_in.template, sName, 1) = 0 /\ IndexOf(p_in.template, sPoints, 1) = 0)
              => p_out.value = p_in.template


----------------------------------------------------------------------------
(* Properties of the invoice lifecycle *)

\* C7: generate_invoice_for_subscription called for a (subscription_id,
\* period_start) that already has an invoice row adds no row for the pair,
\* returns the id of the existing row, and changes of that row only status,
\* paid_at and updated_at: invoice_number, the amounts, period_end and
\* description stay as the first call set them.
C7_RepeatedCallKeepsInvoice ==
    [][\A s \in Sessions :
        (tx[s].pc = "G2" /\ tx'[s].pc = "G3") =>
            LET before == {r \in visibleInvoices(s) :
                             /\ r.subscription_id = tx[s].sub
                             /\ r.period_start = tx[s].period_start}
                after == {r \in visibleInvoices(s)' :
                             /\ r.subscription_id = tx[s].sub
                             /\ r.period_start = tx[s].period_start}
            IN before # {} =>
                /\ Cardinality(after) = 1
                /\ \A o \in before, n \in after :
                    /\ n.id = o.id
                    /\ tx'[s].invoice_id = o.id
                    /\ n.status = "paid" /\ n.paid_at = tx[s].now
                    /\ n = [o EXCEPT !.status = n.status, !.paid_at = n.paid_at,
                                     !.updated_at = n.updated_at]]_vars

\* a second call has updated the row of an earlier call made with another
\* plan and period_end
C7_Witness ==
    \E s \in Sessions :
        /\ tx[s].pc = "G3"
        /\ \E r \in tx[s].w_inv :
            /\ r.id = tx[s].invoice_id
            /\ r.created_at < tx[s].now /\ r.paid_at = tx[s].now
            /\ r.period_end # tx[s].period_end
            /\ r.total # get_plan_amount(tx[s].plan)
            /\ r.invoice_number # tx[s].number

\* C8: whatever the interleaving of webhook and invoice-generation calls, the
\* invoices table holds at most one row per (subscription_id, period_start).
C8_OneInvoicePerPeriod ==
    \A r1, r2 \in invoices :
        (r1.subscription_id = r2.subscription_id /\ r1.period_start = r2.period_start)
            => r1 = r2

\* two calls for the same pair in progress at once: one has written its row,
\* the other has its invoice number and is about to insert
C8_Witness ==
    \E s, o \in Sessions :
        /\ s # o
        /\ tx[s].pc = "G2" /\ tx[o].pc \in {"G3", "ret"}
        /\ tx[s].sub = tx[o].sub /\ tx[s].period_start = tx[o].period_start
        /\ \E r \in tx[o].w_inv : r.id \notin {i.id : i \in invoices}
        /\ tx[s].kind = "webhook"

\* C16 as claimed: a webhook call for an active (or paid) subscription never
\* gets to its RETURN with the subscription row written and no invoice id:
\* when invoice generation raises, the call raises and nothing of it is kept.
C16_GenerateFailureIsHard ==
    \A s \in Sessions :
        (/\ tx[s].pc = "ret" /\ tx[s].kind = "webhook"
         /\ tx[s].status \in {"active", "paid"}
         /\ tx[s].w_sub # {})
            => tx[s].invoice_id # NoId

\* C17 as claimed: whatever calls were made, every invoice has exactly one
\* line item, the one of the call that created it.
C17_OneLineItemPerInvoice ==
    \A i \in invoices :
        Cardinality({li \in invoice_line_items : li.invoice_id = i.id}) = 1

\* C18: a webhook call whose plan type is none of trial, monthly,
\* semiannual, annual, or whose status is no label of subscription_status,
\* raises: it does not get past the casts, has written nothing, and the step
\* that makes the call leaves subscriptions, invoices and invoice_line_items
\* as they were.
C18_InvalidEnumRaises ==
    [][\A s \in Sessions :
        (/\ tx'[s].kind = "webhook"
         /\ \/ tx'[s].plan \notin {"trial", "monthly", "semiannual", "annual"}
            \/ tx'[s].status \notin StatusLabels)
            => /\ tx'[s].pc = "idle"
               /\ tx'[s].result.state = "raised"
               /\ tx'[s].w_sub = {} /\ tx'[s].w_inv = {} /\ tx'[s].w_items = {}
               /\ tx'[s] # tx[s] =>
                    UNCHANGED <<subscriptions, invoices, invoice_line_items>>]_vars

\* a call with an unknown plan type was rejected while the tables held the
\* rows of an earlier call
C18_Witness ==
    \E s \in Sessions :
        /\ tx[s].kind = "webhook" /\ tx[s].plan = "gold"
        /\ tx[s].result.state = "raised"
        /\ subscriptions # {} /\ invoices # {} /\ invoice_line_items # {}



\* C22 as claimed: whatever calls of the invoice functions have committed, in
\* whatever interleaving, no two rows of invoices carry the same
\* invoice_number.
C22_InvoiceNumbersUnique ==
    \A r1 \in invoices : \A r2 \in invoices :
        r1.invoice_number = r2.invoice_number => r1.id = r2.id
====
